---- MODULE Spec2Model ----
(***************************************************************************)
(* A model of the deploy-cloudrun GitHub Action: the `run` entry point     *)
(* (input validation, construction of the deploy and update-traffic gcloud *)
(* commands, their sequential execution) and the two response parsers.     *)
(*                                                                         *)
(* Strings of the program are TLA+ strings; an argument vector is a        *)
(* sequence of strings; a string-to-string record (KVPair) is a sequence   *)
(* of <<key, value>> pairs with distinct keys, in insertion order.         *)
(*                                                                         *)
(* The state machine starts where run has read and parsed its inputs and   *)
(* resolved the gcloud version: `inputs` holds the values of run's locals  *)
(* at that point.                                                          *)
(***************************************************************************)
EXTENDS Integers, Sequences, FiniteSets, TLC

(***************************************************************************)
(* Bounds of the model.                                                    *)
(***************************************************************************)
\* the largest non-zero exit code an executed command returns
MaxExitCode == 1
\* the number of regions beyond the first that the region input may list
MaxExtraRegions == 1
\* the largest number of entries of a mapping given to kvToString
MaxPairs == 3
\* the largest number of characters of a string given to parseFlags, the
\* examples of its tests aside
MaxFlagLen == 5
\* the largest number of entries of status.traffic in a resource descriptor
MaxTraffic == 2
\* the largest number of items of an update-traffic response
MaxItems == 2

(***************************************************************************)
(* Generic helpers on sequences and KVPair values.                         *)
(***************************************************************************)
\* JavaScript `undefined`
Undefined == "<undefined>"

\* Array.prototype.join
RECURSIVE join(_, _)
join(arr, sep) ==
  IF Len(arr) = 0 THEN ""
  ELSE IF Len(arr) = 1 THEN arr[1]
  ELSE arr[1] \o sep \o join(Tail(arr), sep)

\* Array.prototype.indexOf, 0-based, -1 when absent
indexOf(arr, tok) ==
  IF \E i \in 1..Len(arr) : arr[i] = tok
  THEN (CHOOSE i \in 1..Len(arr) : arr[i] = tok /\ \A j \in 1..(i - 1) : arr[j] /= tok) - 1
  ELSE -1

\* whether the argument vector holds the token
includes(arr, tok) == \E i \in 1..Len(arr) : arr[i] = tok

\* whether `sub` occurs in `arr` as a run of consecutive tokens
hasRun(arr, sub) ==
  \E i \in 0..(Len(arr) - Len(sub)) : \A j \in 1..Len(sub) : arr[i + j] = sub[j]

\* Object.keys(kv)
keys(kv) == [i \in 1..Len(kv) |-> kv[i][1]]

hasKey(kv, k) == \E i \in 1..Len(kv) : kv[i][1] = k

\* kv[k] = v on an insertion-ordered record: an existing key keeps its place
setKey(kv, k, v) ==
  IF hasKey(kv, k)
  THEN [i \in 1..Len(kv) |-> IF kv[i][1] = k THEN <<k, v>> ELSE kv[i]]
  ELSE Append(kv, <<k, v>>)

\* Object.assign(target, source)
RECURSIVE assign(_, _)
assign(target, source) ==
  IF Len(source) = 0 THEN target
  ELSE assign(setKey(target, source[1][1], source[1][2]), Tail(source))

\* the value of a key that is an array index (a canonical numeric string),
\* -1 for every other key; these are the numeric keys of the model
arrayIndex(k) ==
  CASE k = "0" -> 0 [] k = "1" -> 1 [] k = "2" -> 2 [] k = "7" -> 7
    [] k = "10" -> 10 [] OTHER -> -1

\* the place of the i-th inserted entry of kv in the order every enumeration
\* of a JavaScript object follows (Object.entries, Object.keys, for-in): the
\* array-index keys in ascending numeric order, then the other keys in
\* insertion order
place(kv, i) ==
  IF arrayIndex(kv[i][1]) >= 0
  THEN Cardinality({j \in 1..Len(kv) : arrayIndex(kv[j][1]) \in 0..arrayIndex(kv[i][1])})
  ELSE Cardinality({j \in 1..Len(kv) : j <= i \/ arrayIndex(kv[j][1]) >= 0})

\* the positions of kv in that order
ownKeysOrder(kv) == [n \in 1..Len(kv) |-> CHOOSE i \in 1..Len(kv) : place(kv, i) = n]

\* Object.entries(kv)
entries(kv) == [n \in 1..Len(kv) |-> kv[ownKeysOrder(kv)[n]]]

\* `${k}=${v}`
entryString(e) == e[1] \o "=" \o e[2]

\* kvToString with the entries taken last to first
kvToStringReversed(kv, separator) ==
  join([i \in 1..Len(kv) |-> entryString(kv[Len(kv) + 1 - i])], separator)

\* kvToString: the entries as key=value joined by the separator
kvToString(kv, separator) ==
  join([i \in 1..Len(kv) |-> entryString(entries(kv)[i])], separator)

\* joinKVStringForGCloud of actions-utils, as the action's tests decode it
\* (splitKV): the delimiter announced between carets, then the joined pairs
joinKVStringForGCloud(kv) == "^,^" \o kvToString(kv, ",")

\* parseKVStringAndFile: the pairs of the file overlaid by the explicit pairs
parseKVStringAndFile(envVars, envVarsFile) == assign(envVarsFile, envVars)

\* String.prototype.toLowerCase on the commit identifiers of the model
toLowerCase(s) ==
  CASE s = "ABCDEF123456" -> "abcdef123456"
    [] OTHER -> s

(***************************************************************************)
(* Error messages.  errorMessage gives the message of a caught Error with  *)
(* its first letter in lower case; the messages of the model that start    *)
(* with a capital are listed with what they become.                        *)
(***************************************************************************)
\* the rest of the message thrown for an unknown update strategy
invalidStrategyTail(input, strategy) ==
  "nvalid " \o "\"" \o input \o "\"" \o " value " \o "\"" \o strategy \o "\""
    \o ", valid values are " \o "\"" \o "overwrite" \o "\"" \o " and "
    \o "\"" \o "merge" \o "\"" \o "."

\* the rest of the message thrown for a metadata file of an unknown kind
unknownKindTail(kind) ==
  "nkown metadata type " \o "\"" \o kind \o "\"" \o ", expected " \o "\"" \o "Job"
    \o "\"" \o " or " \o "\"" \o "Service" \o "\""

StrategyInputs == {"env_vars_update_strategy", "secrets_update_strategy"}
StrategyValues == {"merge", "overwrite", "Merge"}
KindValues == {"Service", "Job", "CronJob", "undefined"}

\* errorMessage with the message left as it was thrown
errorMessageVerbatim(msg) == msg

errorMessage(msg) ==
  CASE msg = "Only one of 'revision_traffic' or 'tag_traffic' inputs can be set."
         -> "only one of 'revision_traffic' or 'tag_traffic' inputs can be set."
    [] msg = "No service name set." -> "no service name set."
    [] msg = "Only one of 'source' or 'image' inputs can be set."
         -> "only one of 'source' or 'image' inputs can be set."
    [] msg = "Only one of 'service' or 'job' inputs can be set."
         -> "only one of 'service' or 'job' inputs can be set."
    [] msg = "Unexpected token o in JSON at position 1"
         -> "unexpected token o in JSON at position 1"
    [] msg = "Unexpected end of JSON input" -> "unexpected end of JSON input"
    [] msg = "Cannot read properties of null (reading '0')"
         -> "cannot read properties of null (reading '0')"
    [] msg = "Cannot read properties of null (reading 'tag')"
         -> "cannot read properties of null (reading 'tag')"
    [] \E i \in StrategyInputs, v \in StrategyValues : msg = "I" \o invalidStrategyTail(i, v)
         -> LET p == CHOOSE q \in StrategyInputs \X StrategyValues :
                       msg = "I" \o invalidStrategyTail(q[1], q[2])
            IN  "i" \o invalidStrategyTail(p[1], p[2])
    [] \E k \in KindValues : msg = "U" \o unknownKindTail(k)
         -> "u" \o unknownKindTail(CHOOSE k \in KindValues : msg = "U" \o unknownKindTail(k))
    [] OTHER -> msg

(***************************************************************************)
(* parseFlags: the tokenizer of the raw pass-through flag inputs.  The     *)
(* input is a sequence of one-character strings; the result is the array   *)
(* of matches of /(".*?"|[^"\s=]+)+(?=\s*|\s*$)/g.                         *)
(***************************************************************************)
Quote == "\""

\* \s of the pattern
isSpace(c) == c \in {" ", "\t", "\n"}

\* [^"\s=]
isPlain(c) == c /= Quote /\ ~isSpace(c) /\ c /= "="

\* the position after the longest repetition (".*?"|[^"\s=]+)+ that starts at
\* p, or p itself when the group does not match there
RECURSIVE groupEnd(_, _)
groupEnd(s, p) ==
  IF p > Len(s) THEN p
  ELSE IF s[p] = Quote
  THEN LET closers == {q \in (p + 1)..Len(s) : s[q] = Quote}
       IN  IF closers = {} THEN p
           ELSE LET q == CHOOSE c \in closers : \A d \in closers : c <= d
                IN  IF \E r \in (p + 1)..(q - 1) : s[r] = "\n" THEN p
                    ELSE groupEnd(s, q + 1)
  ELSE IF isPlain(s[p]) THEN groupEnd(s, p + 1)
  ELSE p

RECURSIVE matchAll(_, _)
matchAll(s, i) ==
  IF i > Len(s) THEN <<>>
  ELSE LET e == groupEnd(s, i)
       IN  IF e = i THEN matchAll(s, i + 1)
           ELSE <<join(SubSeq(s, i, e - 1), "")>> \o matchAll(s, e)

\* String.prototype.match with the g flag (null is the empty array here: the
\* caller concatenates the result only when it is truthy)
parseFlags(flags) == matchAll(flags, 1)

(***************************************************************************)
(* Response parsing.  A stdout value is a record of its text, the value    *)
(* JSON.parse gives for it (t = "invalid" when JSON.parse throws, with the *)
(* SyntaxError message in err), and the fields the parsers read.           *)
(***************************************************************************)
\* isBlankResponse without the two empty literals
isBlankResponseEmptyOnly(stdout) == stdout.text = ""

\* presence(stdout) is falsy, or stdout is one of the two empty literals
isBlankResponse(stdout) ==
  stdout.text = "" \/ stdout.text = "{}" \/ stdout.text = "[]"

\* DeployCloudRunOutputs: {} or { url: value }
EmptyOutputs == [hasUrl |-> FALSE, url |-> Undefined]
UrlOutputs(u) == [hasUrl |-> TRUE, url |-> u]

\* JSON.stringify({ tag: tag })
stringifyInputs(tag) == "{" \o Quote \o "tag" \o Quote \o ":" \o Quote \o tag \o Quote \o "}"

\* the result of a parser: either outputs or a thrown Error
Returned(o) == [threw |-> FALSE, outputs |-> o, msg |-> ""]
Threw(m) == [threw |-> TRUE, outputs |-> EmptyOutputs, msg |-> m]

\* an entry of status.traffic that is the JSON value null
NullTarget == [tag |-> "<null>", url |-> "<null>"]

\* the callback of find, (t) => t.tag === inputs.tag, reads a null entry:
\* find reaches one before it reaches an entry that carries the tag
findReadsNull(traffic, tag) ==
  \E i \in 1..Len(traffic) :
    traffic[i] = NullTarget /\ \A j \in 1..(i - 1) : traffic[j].tag /= tag

\* findTag giving the last entry that carries the tag
findTagLast(traffic, tag) ==
  IF \E i \in 1..Len(traffic) : traffic[i].tag = tag
  THEN CHOOSE i \in 1..Len(traffic) :
         traffic[i].tag = tag /\ \A j \in (i + 1)..Len(traffic) : traffic[j].tag /= tag
  ELSE 0

\* outputJSON?.status?.traffic?.find((t) => t.tag === inputs.tag)
findTag(traffic, tag) ==
  IF \E i \in 1..Len(traffic) : traffic[i].tag = tag
  THEN CHOOSE i \in 1..Len(traffic) :
         traffic[i].tag = tag /\ \A j \in 1..(i - 1) : traffic[j].tag /= tag
  ELSE 0

parseDeployResponse(stdout, tag) ==
  IF isBlankResponse(stdout) THEN Returned(EmptyOutputs)
  ELSE IF stdout.t = "invalid"
  THEN Threw("failed to parse deploy response: " \o errorMessage(stdout.err) \o ", stdout: "
             \o stdout.text \o ", inputs: " \o stringifyInputs(tag))
  ELSE IF tag /= "" /\ stdout.t = "object" /\ findReadsNull(stdout.traffic, tag)
  THEN Threw("failed to parse deploy response: "
             \o errorMessage("Cannot read properties of null (reading 'tag')")
             \o ", stdout: " \o stdout.text \o ", inputs: " \o stringifyInputs(tag))
  ELSE LET url == IF stdout.t = "object" THEN stdout.url ELSE Undefined
           traffic == IF stdout.t = "object" THEN stdout.traffic ELSE <<>>
           idx == IF tag /= "" THEN findTag(traffic, tag) ELSE 0
       IN  Returned(UrlOutputs(IF idx > 0 THEN traffic[idx].url ELSE url))

\* firstWithUrls looking at the first item only
firstWithUrlsHeadOnly(items) ==
  IF Len(items) > 0 /\ Len(items[1].urls) > 0 THEN 1 ELSE 0

\* the first item, in array order, whose urls list is non-empty; 0 when none
firstWithUrls(items) ==
  IF \E i \in 1..Len(items) : Len(items[i].urls) > 0
  THEN CHOOSE i \in 1..Len(items) :
         Len(items[i].urls) > 0 /\ \A j \in 1..(i - 1) : Len(items[j].urls) = 0
  ELSE 0

parseUpdateTrafficResponse(stdout) ==
  IF isBlankResponse(stdout) THEN Returned(EmptyOutputs)
  ELSE IF stdout.t = "invalid"
  THEN Threw("failed to parse update traffic response: " \o errorMessage(stdout.err)
             \o ", stdout: " \o stdout.text)
  ELSE IF stdout.t = "null"
  THEN Threw("failed to parse update traffic response: "
             \o errorMessage("Cannot read properties of null (reading '0')")
             \o ", stdout: " \o stdout.text)
  ELSE IF stdout.t = "string"
  THEN Returned(UrlOutputs(Undefined))
  ELSE IF stdout.t /= "array"
  THEN Threw("failed to parse update traffic response: "
             \o errorMessage("outputJSON is not iterable") \o ", stdout: " \o stdout.text)
  ELSE LET items == stdout.items
           first == firstWithUrls(items)
           serviceUrl == IF Len(items) > 0 THEN items[1].serviceUrl ELSE Undefined
       IN  Returned(UrlOutputs(IF first > 0 THEN items[first].urls[1] ELSE serviceUrl))

(***************************************************************************)
(* Command construction.                                                   *)
(***************************************************************************)
\* the metadata files of the model: what readFile and parseYAML give for each
\* path (name is parsed?.metadata?.name, kind is parsed?.kind)
readMetadata(path) ==
  CASE path = "tests/fixtures/service.yaml" -> [name |-> "run-full-yaml", kind |-> "Service"]
    [] path = "tests/fixtures/job.yaml"     -> [name |-> "my-test-job", kind |-> "Job"]
    [] path = "cronjob.yaml"                -> [name |-> "nightly", kind |-> "CronJob"]
    [] path = "nokind.yaml"                 -> [name |-> "run-full-yaml", kind |-> Undefined]
    [] OTHER                                -> [name |-> Undefined, kind |-> "Service"]

\* the state of run's locals while the commands are built; error is the
\* message of the Error thrown so far ("" while none is)
Locals(in) ==
  [error |-> "", service |-> in.service, deployCmd |-> <<>>,
   updateTrafficCmd |-> <<>>, warnings |-> {}]

throw(st, msg) == [st EXCEPT !.error = msg]
logWarning(st, msg) == [st EXCEPT !.warnings = @ \cup {msg}]
push(st, toks) == [st EXCEPT !.deployCmd = @ \o toks]

defaultLabels(sha) ==
  <<(<<"managed-by", "github-actions">>)>>
    \o (IF sha /= "" THEN <<(<<"commit-sha", toLowerCase(sha)>>)>> ELSE <<>>)

\* validateInputs without the check of the two traffic inputs
validateInputsTrafficUnchecked(st, in) ==
  IF (in.revTraffic /= "" \/ in.tagTraffic /= "") /\ st.service = ""
  THEN throw(st, "No service name set.")
  ELSE IF in.source /= "" /\ in.image /= ""
  THEN throw(st, "Only one of 'source' or 'image' inputs can be set.")
  ELSE IF st.service /= "" /\ in.job /= ""
  THEN throw(st, "Only one of 'service' or 'job' inputs can be set.")
  ELSE st

\* validateInputs without the check that a traffic input comes with a service
validateInputsServiceUnchecked(st, in) ==
  IF in.revTraffic /= "" /\ in.tagTraffic /= ""
  THEN throw(st, "Only one of 'revision_traffic' or 'tag_traffic' inputs can be set.")
  ELSE IF in.source /= "" /\ in.image /= ""
  THEN throw(st, "Only one of 'source' or 'image' inputs can be set.")
  ELSE IF st.service /= "" /\ in.job /= ""
  THEN throw(st, "Only one of 'service' or 'job' inputs can be set.")
  ELSE st

\* validateInputs without the check of service against job
validateInputsJobUnchecked(st, in) ==
  IF in.revTraffic /= "" /\ in.tagTraffic /= ""
  THEN throw(st, "Only one of 'revision_traffic' or 'tag_traffic' inputs can be set.")
  ELSE IF (in.revTraffic /= "" \/ in.tagTraffic /= "") /\ st.service = ""
  THEN throw(st, "No service name set.")
  ELSE IF in.source /= "" /\ in.image /= ""
  THEN throw(st, "Only one of 'source' or 'image' inputs can be set.")
  ELSE st

\* the checks made before anything is built (the messages are the program's,
\* with its backquotes written as single quotes)
validateInputs(st, in) ==
  IF in.revTraffic /= "" /\ in.tagTraffic /= ""
  THEN throw(st, "Only one of 'revision_traffic' or 'tag_traffic' inputs can be set.")
  ELSE IF (in.revTraffic /= "" \/ in.tagTraffic /= "") /\ st.service = ""
  THEN throw(st, "No service name set.")
  ELSE IF in.source /= "" /\ in.image /= ""
  THEN throw(st, "Only one of 'source' or 'image' inputs can be set.")
  ELSE IF st.service /= "" /\ in.job /= ""
  THEN throw(st, "Only one of 'service' or 'job' inputs can be set.")
  ELSE st

deprecationNotices(st, in) ==
  IF in.envVarsFile.path /= ""
  THEN logWarning(st, "The " \o Quote \o "env_vars_file" \o Quote
                      \o " input is deprecated and will be removed in a "
                      \o "future major release. To source values from a file, read the file "
                      \o "in a separate GitHub Actions step and set the contents as an output. "
                      \o "Alternatively, there are many community actions that automate "
                      \o "reading files.")
  ELSE st

validateComponent(st, in) ==
  IF in.gcloudComponent /= "" /\ in.gcloudComponent /= "alpha" /\ in.gcloudComponent /= "beta"
  THEN throw(st, "invalid input received for gcloud_component: " \o in.gcloudComponent)
  ELSE st

\* the message of the Error thrown for an unknown update strategy
invalidStrategy(input, strategy) == "I" \o invalidStrategyTail(input, strategy)

\* setEnvVarsFlags with the two flag names exchanged
setEnvVarsFlagsSwapped(st, envVars, envVarsFile, strategy) ==
  LET compiledEnvVars == parseKVStringAndFile(envVars, envVarsFile)
  IN  IF Len(compiledEnvVars) > 0
      THEN IF strategy = "overwrite"
           THEN push(st, <<"--update-env-vars", joinKVStringForGCloud(compiledEnvVars)>>)
           ELSE IF strategy = "merge"
           THEN push(st, <<"--set-env-vars", joinKVStringForGCloud(compiledEnvVars)>>)
           ELSE throw(st, invalidStrategy("env_vars_update_strategy", strategy))
      ELSE st

setEnvVarsFlags(st, envVars, envVarsFile, strategy) ==
  LET compiledEnvVars == parseKVStringAndFile(envVars, envVarsFile)
  IN  IF Len(compiledEnvVars) > 0
      THEN IF strategy = "overwrite"
           THEN push(st, <<"--set-env-vars", joinKVStringForGCloud(compiledEnvVars)>>)
           ELSE IF strategy = "merge"
           THEN push(st, <<"--update-env-vars", joinKVStringForGCloud(compiledEnvVars)>>)
           ELSE throw(st, invalidStrategy("env_vars_update_strategy", strategy))
      ELSE st

\* setSecretsFlags taking every strategy other than overwrite for merge
setSecretsFlagsLenient(st, secrets, strategy) ==
  IF Len(secrets) > 0
  THEN IF strategy = "overwrite"
       THEN push(st, <<"--set-secrets", joinKVStringForGCloud(secrets)>>)
       ELSE push(st, <<"--update-secrets", joinKVStringForGCloud(secrets)>>)
  ELSE st

setSecretsFlags(st, secrets, strategy) ==
  IF Len(secrets) > 0
  THEN IF strategy = "overwrite"
       THEN push(st, <<"--set-secrets", joinKVStringForGCloud(secrets)>>)
       ELSE IF strategy = "merge"
       THEN push(st, <<"--update-secrets", joinKVStringForGCloud(secrets)>>)
       ELSE throw(st, invalidStrategy("secrets_update_strategy", strategy))
  ELSE st

\* --image or --source
pushImageOrSource(st, in) ==
  IF in.image /= "" THEN push(st, <<"--image", in.image>>)
  ELSE IF in.source /= "" THEN push(st, <<"--source", in.source>>)
  ELSE st

\* pushLabels with the overlay reversed: the default value wins a collision
pushLabelsDefaultsWin(st, in, sha, flag) ==
  LET defLabels == IF in.skipDefaultLabels THEN <<>> ELSE defaultLabels(sha)
      compiledLabels == assign(in.labels, defLabels)
  IN  IF Len(compiledLabels) > 0
      THEN push(st, <<flag, joinKVStringForGCloud(compiledLabels)>>)
      ELSE st

\* the compiled labels under the given flag
pushLabels(st, in, sha, flag) ==
  LET defLabels == IF in.skipDefaultLabels THEN <<>> ELSE defaultLabels(sha)
      compiledLabels == assign(defLabels, in.labels)
  IN  IF Len(compiledLabels) > 0
      THEN push(st, <<flag, joinKVStringForGCloud(compiledLabels)>>)
      ELSE st

\* an Error thrown by a step ends the construction
orElse(st, next) == IF st.error /= "" THEN st ELSE next

\* the name check left out: the declared name silently replaces the input
namesConflictIgnored(svc, name) == FALSE

\* service && service != name
namesConflict(svc, name) == svc /= "" /\ svc /= name

\* the message of the Error thrown when the two names differ
nameMismatch(metadata, name, svc) ==
  "service name in " \o metadata \o " (" \o Quote \o name \o Quote
    \o ") does not match GitHub Actions service input (" \o Quote \o svc \o Quote \o ")"

\* metadataCommand taking every declared kind for a Service
metadataCommandAlwaysService(st, in) ==
  LET parsed == readMetadata(in.metadata)
      name == parsed.name
  IN  IF name = Undefined \/ name = ""
      THEN throw(st, in.metadata \o " is missing 'metadata.name'")
      ELSE IF namesConflict(st.service, name)
      THEN throw(st, nameMismatch(in.metadata, name, st.service))
      ELSE [st EXCEPT !.service = name,
                      !.deployCmd = <<"run", "services", "replace", in.metadata>>]

\* if (metadata) { ... }
metadataCommand(st, in) ==
  LET parsed == readMetadata(in.metadata)
      name == parsed.name
      kind == parsed.kind
  IN  IF name = Undefined \/ name = ""
      THEN throw(st, in.metadata \o " is missing 'metadata.name'")
      ELSE IF namesConflict(st.service, name)
      THEN throw(st, nameMismatch(in.metadata, name, st.service))
      ELSE LET named == [st EXCEPT !.service = name]
           IN  IF kind = "Service"
               THEN [named EXCEPT !.deployCmd = <<"run", "services", "replace", in.metadata>>]
               ELSE IF kind = "Job"
               THEN [named EXCEPT !.deployCmd = <<"run", "jobs", "replace", in.metadata>>]
               ELSE throw(named, "U" \o unknownKindTail(IF kind = Undefined THEN "undefined"
                                                          ELSE kind))

\* downgradeJobSecrets that warns and leaves the flag as it is
downgradeJobSecretsWarnOnly(st) ==
  LET idx == indexOf(st.deployCmd, "--update-secrets")
  IN  IF idx >= 0
      THEN logWarning(st, "Cloud Run does not allow updating secrets on jobs, ignoring "
                          \o Quote \o "secrets_update_strategy" \o Quote \o " value of "
                          \o Quote \o "merge" \o Quote)
      ELSE st

\* There is no --update-secrets flag on jobs: the flag is renamed, with a warning
downgradeJobSecrets(st) ==
  LET idx == indexOf(st.deployCmd, "--update-secrets")
  IN  IF idx >= 0
      THEN [logWarning(st, "Cloud Run does not allow updating secrets on jobs, ignoring "
                           \o Quote \o "secrets_update_strategy" \o Quote \o " value of "
                           \o Quote \o "merge" \o Quote)
              EXCEPT !.deployCmd[idx + 1] = "--set-secrets"]
      ELSE st

\* else if (job) { ... }
jobCommand(st, in, sha) ==
  LET s0 == logWarning(st, "Support for Cloud Run jobs in this GitHub Action is in beta and is "
                           \o "not covered by the semver backwards compatibility guarantee.")
      s1 == [s0 EXCEPT !.deployCmd = <<"run", "jobs", "deploy", in.job>>]
      s2 == pushImageOrSource(s1, in)
      s3 == setEnvVarsFlags(s2, in.envVars, in.envVarsFile.kv, in.envVarsUpdateStrategy)
      s4 == orElse(s3, setSecretsFlags(s3, in.secrets, in.secretsUpdateStrategy))
      s5 == orElse(s4, downgradeJobSecrets(s4))
  IN  orElse(s5, pushLabels(s5, in, sha, "--labels"))

\* else { ... }: the service deploy
serviceCommand(st, in, sha) ==
  LET s1 == [st EXCEPT !.deployCmd = <<"run", "deploy", st.service>>]
      s2 == pushImageOrSource(s1, in)
      s3 == setEnvVarsFlags(s2, in.envVars, in.envVarsFile.kv, in.envVarsUpdateStrategy)
      s4 == orElse(s3, setSecretsFlags(s3, in.secrets, in.secretsUpdateStrategy))
      s5 == push(s4, (IF in.tag /= "" THEN <<"--tag", in.tag>> ELSE <<>>)
                     \o (IF in.suffix /= "" THEN <<"--revision-suffix", in.suffix>> ELSE <<>>)
                     \o (IF in.noTraffic THEN <<"--no-traffic">> ELSE <<>>)
                     \o (IF in.timeout /= "" THEN <<"--timeout", in.timeout>> ELSE <<>>))
  IN  orElse(s4, pushLabels(s5, in, sha, "--update-labels"))

\* Find base command
baseCommand(st, in, sha) ==
  IF in.metadata /= "" THEN metadataCommand(st, in)
  ELSE IF in.job /= "" THEN jobCommand(st, in, sha)
  ELSE serviceCommand(st, in, sha)

\* trafficCommand passing the tag traffic under the revision flag
trafficCommandRevisionsOnly(st, in) ==
  [st EXCEPT !.updateTrafficCmd =
     <<"run", "services", "update-traffic", st.service>>
       \o (IF in.revTraffic /= "" THEN <<"--to-revisions", in.revTraffic>> ELSE <<>>)
       \o (IF in.tagTraffic /= "" THEN <<"--to-revisions", in.tagTraffic>> ELSE <<>>)]

\* Traffic flags
trafficCommand(st, in) ==
  [st EXCEPT !.updateTrafficCmd =
     <<"run", "services", "update-traffic", st.service>>
       \o (IF in.revTraffic /= "" THEN <<"--to-revisions", in.revTraffic>> ELSE <<>>)
       \o (IF in.tagTraffic /= "" THEN <<"--to-tags", in.tagTraffic>> ELSE <<>>)]

\* region.flat().filter(...).join(',')
joinRegions(region) == join(SelectSeq(region, LAMBDA e : e /= ""), ",")

\* commonFlags adding the tokens of both pass-through inputs to both commands
commonFlagsShared(st, in) ==
  LET common == <<"--format", "json">>
                  \o (IF Len(in.region) > 0 THEN <<"--region", joinRegions(in.region)>> ELSE <<>>)
                  \o (IF in.projectId /= "" THEN <<"--project", in.projectId>> ELSE <<>>)
                  \o (IF Len(in.flags) > 0 THEN parseFlags(in.flags) ELSE <<>>)
                  \o (IF Len(in.updateTrafficFlags) > 0
                      THEN parseFlags(in.updateTrafficFlags) ELSE <<>>)
  IN  [st EXCEPT !.deployCmd = @ \o common, !.updateTrafficCmd = @ \o common]

\* commonFlags with the pass-through flags added before the common flags
commonFlagsPassThroughFirst(st, in) ==
  LET common == <<"--format", "json">>
                  \o (IF Len(in.region) > 0 THEN <<"--region", joinRegions(in.region)>> ELSE <<>>)
                  \o (IF in.projectId /= "" THEN <<"--project", in.projectId>> ELSE <<>>)
  IN  [st EXCEPT
         !.deployCmd = @ \o (IF Len(in.flags) > 0 THEN parseFlags(in.flags) ELSE <<>>)
                         \o common,
         !.updateTrafficCmd = @ \o (IF Len(in.updateTrafficFlags) > 0
                                    THEN parseFlags(in.updateTrafficFlags) ELSE <<>>)
                                \o common]

\* Push common flags, then the optional pass-through flags of each command
commonFlags(st, in) ==
  LET common == <<"--format", "json">>
                  \o (IF Len(in.region) > 0 THEN <<"--region", joinRegions(in.region)>> ELSE <<>>)
                  \o (IF in.projectId /= "" THEN <<"--project", in.projectId>> ELSE <<>>)
  IN  [st EXCEPT
         !.deployCmd = @ \o common
                         \o (IF Len(in.flags) > 0 THEN parseFlags(in.flags) ELSE <<>>),
         !.updateTrafficCmd = @ \o common
                         \o (IF Len(in.updateTrafficFlags) > 0
                             THEN parseFlags(in.updateTrafficFlags) ELSE <<>>)]

\* run, from the validation of the inputs to the two argument vectors
buildCommands(in, sha) ==
  LET s0 == Locals(in)
      s1 == validateInputs(s0, in)
      s2 == orElse(s1, deprecationNotices(s1, in))
      s3 == orElse(s2, validateComponent(s2, in))
      s4 == orElse(s3, baseCommand(s3, in, sha))
      s5 == orElse(s4, trafficCommand(s4, in))
  IN  orElse(s5, commonFlags(s5, in))

(***************************************************************************)
(* The inputs of the model.                                                *)
(***************************************************************************)
NoFile == [path |-> "", kv |-> <<>>]
EnvFile == [path |-> "env.yaml", kv |-> << <<"FOO", "file">>, <<"ZIP", "zap">> >>]

\* --cpu=2
DeployFlags == <<"-", "-", "c", "p", "u", "=", "2">>
\* --q "a b"
TrafficFlags == <<"-", "-", "q", " ", Quote, "a", " ", "b", Quote>>

\* the region input after parseCSV: one region, or up to MaxExtraRegions more
RegionPool == <<"us-central1", "us-east1", "europe-west1", "asia-east1">>
Regions == {SubSeq(RegionPool, 1, n) : n \in 1..(1 + MaxExtraRegions)}

\* getInput('..._update_strategy') || 'merge'
Strategies == {IF raw = "" THEN "merge" ELSE raw : raw \in {"", "merge", "overwrite", "Merge"}}

\* every combination of the inputs that decide which commands are built and
\* whether the request is valid; the other inputs are absent
ControlRequests ==
  [image : {"", "gcr.io/cloudrun/hello"},
   service : {"", "my-test-service", "run-full-yaml", "my-test-job"},
   job : {"", "my-test-job"},
   metadata : {"", "tests/fixtures/service.yaml", "tests/fixtures/job.yaml",
               "cronjob.yaml", "nokind.yaml", "noname.yaml"},
   projectId : {""},
   gcloudComponent : {"", "beta", "gamma"},
   envVars : {<<>>, << <<"FOO", "BAR">> >>},
   envVarsFile : {NoFile},
   envVarsUpdateStrategy : Strategies,
   secrets : {<<>>, << <<"KEY", "secret:latest">> >>},
   secretsUpdateStrategy : Strategies,
   region : {<<"us-central1">>},
   source : {"", "example-app"},
   suffix : {""},
   tag : {""},
   timeout : {""},
   noTraffic : {FALSE},
   revTraffic : {"", "REV=100"},
   tagTraffic : {"", "TAG=100"},
   labels : {<<>>},
   skipDefaultLabels : {FALSE},
   flags : {<<>>},
   updateTrafficFlags : {<<>>}]

\* the four shapes of a valid request: a service deploy, a service deploy
\* followed by a traffic update, a job deploy and a metadata file
Shapes ==
  {[service |-> "my-test-service", job |-> "", metadata |-> "", tagTraffic |-> ""],
   [service |-> "my-test-service", job |-> "", metadata |-> "", tagTraffic |-> "TAG=100"],
   [service |-> "", job |-> "my-test-job", metadata |-> "", tagTraffic |-> ""],
   [service |-> "", job |-> "", metadata |-> "tests/fixtures/service.yaml", tagTraffic |-> ""]}

\* a shape with every combination of the inputs that become typed flags of the
\* deploy command
TypedRequests(sh) ==
  [image : {"gcr.io/cloudrun/hello"},
   service : {sh.service},
   job : {sh.job},
   metadata : {sh.metadata},
   projectId : {""},
   gcloudComponent : {""},
   envVars : {<<>>, << <<"FOO", "BAR">> >>},
   envVarsFile : {NoFile, EnvFile},
   envVarsUpdateStrategy : {"merge"},
   secrets : {<<>>, << <<"KEY", "secret:latest">> >>},
   secretsUpdateStrategy : {"merge"},
   region : {<<"us-central1">>},
   source : {""},
   suffix : {"", "v2"},
   tag : {"", "canary"},
   timeout : {"", "55m12s"},
   noTraffic : BOOLEAN,
   revTraffic : {""},
   tagTraffic : {sh.tagTraffic},
   labels : {<<>>, << <<"foo", "bar">>, <<"commit-sha", "custom-value">> >>},
   skipDefaultLabels : BOOLEAN,
   flags : {<<>>},
   updateTrafficFlags : {<<>>}]

\* a shape with every combination of the inputs that become the flags common
\* to both commands, and of the pass-through flags
CommonRequests(sh) ==
  [image : {"gcr.io/cloudrun/hello"},
   service : {sh.service},
   job : {sh.job},
   metadata : {sh.metadata},
   projectId : {"", "my-test-project"},
   gcloudComponent : {"", "alpha"},
   envVars : {<<>>, << <<"FOO", "BAR">> >>},
   envVarsFile : {NoFile},
   envVarsUpdateStrategy : {"overwrite"},
   secrets : {<<>>},
   secretsUpdateStrategy : {"merge"},
   region : Regions,
   source : {""},
   suffix : {""},
   tag : {"", "canary"},
   timeout : {""},
   noTraffic : {FALSE},
   revTraffic : {""},
   tagTraffic : {sh.tagTraffic},
   labels : {<<>>, << <<"foo", "bar">> >>},
   skipDefaultLabels : {TRUE},
   flags : {<<>>, DeployFlags},
   updateTrafficFlags : {<<>>, TrafficFlags}]

\* process.env and the tool cache
DefaultEnv == [GITHUB_SHA |-> "", credFile |-> "creds.json", installed |-> TRUE]
ShaEnvs == [GITHUB_SHA : {"", "ABCDEF123456"}, credFile : {"creds.json"}, installed : {TRUE}]
ToolEnvs == [GITHUB_SHA : {"ABCDEF123456"}, credFile : {"", "creds.json"}, installed : BOOLEAN]

\* what a gcloud invocation may write to its standard output
NoUrls == <<>>
EmptyObject ==
  [text |-> "{}", t |-> "object", err |-> "", url |-> Undefined,
   traffic |-> <<>>, items |-> <<>>]
NotJson ==
  [text |-> "not json", t |-> "invalid", err |-> "Unexpected token o in JSON at position 1",
   url |-> Undefined, traffic |-> <<>>, items |-> <<>>]
ServiceDescriptor ==
  [text |-> "{status:{url:https://a.example,traffic:[{tag:canary,url:https://canary---a.example}]}}",
   t |-> "object", err |-> "", url |-> "https://a.example",
   traffic |-> <<[tag |-> "canary", url |-> "https://canary---a.example"]>>,
   items |-> <<>>]
TrafficList ==
  [text |-> "[{serviceUrl:https://a.example,urls:[]},{serviceUrl:https://a.example,urls:[https://tag1---a.example]}]",
   t |-> "array", err |-> "", url |-> Undefined, traffic |-> <<>>,
   items |-> <<[serviceUrl |-> "https://a.example", urls |-> NoUrls],
               [serviceUrl |-> "https://a.example", urls |-> <<"https://tag1---a.example">>]>>]
\* a list whose only item carries neither a serviceUrl nor a tag url
NoUrlList ==
  [text |-> "[{urls:[]}]", t |-> "array", err |-> "", url |-> Undefined, traffic |-> <<>>,
   items |-> <<[serviceUrl |-> Undefined, urls |-> NoUrls]>>]
\* nothing was written yet
NoStdout ==
  [text |-> "", t |-> "invalid", err |-> "Unexpected end of JSON input",
   url |-> Undefined, traffic |-> <<>>, items |-> <<>>]
DeployStdouts == {EmptyObject, ServiceDescriptor, NotJson}
UpdateTrafficStdouts == {EmptyObject, TrafficList, NoUrlList, NotJson}

\* what getExecOutput may resolve to: exit code 0 with some standard output,
\* or a non-zero exit code with or without standard error
ExitCodes == 0..MaxExitCode
ExecOutputs(stdouts) ==
  {[exitCode |-> 0, stdout |-> o, stderr |-> ""] : o \in stdouts}
    \cup {[exitCode |-> c, stdout |-> EmptyObject, stderr |-> e] :
            c \in ExitCodes \ {0}, e \in {"", "ERROR: (gcloud.run) boom"}}

(***************************************************************************)
(* The state of one invocation of run.                                     *)
(***************************************************************************)
VARIABLES
  inputs,            \* the action inputs, as read by getInput and parsed
  env,               \* GITHUB_SHA, GOOGLE_GHA_CREDS_PATH, the tool cache
  pc,                \* where run is: start, built, deploying, updatingTraffic, done, failed
  service,           \* the local `service` (the metadata file may set it)
  deployCmd,         \* the local `deployCmd`
  updateTrafficCmd,  \* the local `updateTrafficCmd`
  warnings,          \* the messages given to logWarning
  setupLog,          \* the calls made to install and authenticate gcloud
  execLog,           \* the calls made to getExecOutput, in order
  outputs,           \* the calls made to setOutput, in order
  failure,           \* the error given to setFailed, if any
  call,              \* a direct call of one of the exported functions: its arguments
  result             \* what that call returned or threw

vars == <<inputs, env, pc, service, deployCmd, updateTrafficCmd, warnings,
          setupLog, execLog, outputs, failure, call, result>>

NoFailure == [type |-> "", msg |-> ""]

\* no function is called directly during a run
NoCall ==
  [fn |-> "", kv |-> <<>>, separator |-> Undefined, flags |-> <<>>,
   stdout |-> EmptyObject, tag |-> ""]
NoResult == [done |-> FALSE, value |-> <<>>, threw |-> FALSE, msg |-> ""]

\* the catch block of run: setFailed with the errorMessage of the Error
setFailed(type, msg) ==
  [type |-> type,
   msg |-> "google-github-actions/deploy-cloudrun failed with: " \o errorMessage(msg)]

Init ==
  /\ \/ inputs \in ControlRequests /\ env = DefaultEnv
     \/ \E sh \in Shapes : inputs \in TypedRequests(sh) /\ env \in ShaEnvs
     \/ \E sh \in Shapes : inputs \in CommonRequests(sh) /\ env \in ToolEnvs
  /\ pc = "start"
  /\ service = inputs.service
  /\ deployCmd = <<>>
  /\ updateTrafficCmd = <<>>
  /\ warnings = {}
  /\ setupLog = <<>>
  /\ execLog = <<>>
  /\ outputs = <<>>
  /\ failure = NoFailure
  /\ call = NoCall
  /\ result = NoResult

\* getToolCommand()
toolCommand == "gcloud"

\* `${toolCommand} ${deployCmd.join(' ')}`
commandString(cmd) == toolCommand \o " " \o join(cmd, " ")

\* the Error thrown for a non-zero exit code, given the command string it names
execError(cmdString, out) ==
  LET errMsg == IF out.stderr /= "" THEN out.stderr
                ELSE "command exited " \o ToString(out.exitCode)
                       \o ", but stderr had no output"
  IN  "failed to execute gcloud command '" \o cmdString \o "': " \o errMsg

\* setActionOutputs: one setOutput call per key of the outputs object
setActionOutputs(calls, o) ==
  IF o.hasUrl THEN Append(calls, [key |-> "url", value |-> o.url]) ELSE calls

\* a call of getExecOutput that has not resolved yet
Launch(name, cmd) ==
  [name |-> name, tool |-> toolCommand, args |-> cmd, running |-> TRUE,
   exitCode |-> 0, stdout |-> NoStdout, stderr |-> "", parsedBy |-> ""]

\* the failure is reported and run goes on
pcAfterBuildContinues(st) == "built"

\* a non-zero exit code goes unnoticed
commandFailedNever(out) == out.exitCode < 0

\* try { ... } catch (err) { setFailed(...) }: an Error thrown while the
\* commands are built ends run
pcAfterBuild(st) == IF st.error /= "" THEN "failed" ELSE "built"

\* if (exec.exitCode !== 0) throw
commandFailed(out) == out.exitCode /= 0

\* run, from its inputs to the two argument vectors (or the Error thrown)
BuildCommands ==
  /\ pc = "start"
  /\ LET st == buildCommands(inputs, env.GITHUB_SHA)
     IN  /\ service' = st.service
         /\ deployCmd' = st.deployCmd
         /\ updateTrafficCmd' = st.updateTrafficCmd
         /\ warnings' = warnings \cup st.warnings
         /\ failure' = IF st.error /= "" THEN setFailed("ConfigurationError", st.error)
                        ELSE failure
         /\ pc' = pcAfterBuild(st)
  /\ UNCHANGED <<inputs, env, setupLog, execLog, outputs, call, result>>

\* the steps between the construction of the commands and the deploy call
setupSteps(in, e) ==
  (IF e.installed THEN <<"addPath">> ELSE <<"installGcloudSDK">>)
    \o (IF in.gcloudComponent /= "" THEN <<"installComponent">> ELSE <<>>)
    \o (IF e.credFile /= "" THEN <<"authenticateGcloudSDK">> ELSE <<>>)

\* run installs gcloud and the component, prepends the component to both
\* commands, authenticates, and calls getExecOutput for the deploy command;
\* the installation or the authentication may throw
SetupGcloud ==
  /\ pc = "built"
  /\ LET steps == setupSteps(inputs, env)
         prefix == IF inputs.gcloudComponent /= "" THEN <<inputs.gcloudComponent>> ELSE <<>>
     IN  \E done \in 0..Len(steps) :
           /\ done < Len(steps) => steps[done + 1] /= "addPath"
           /\ setupLog' = SubSeq(steps, 1, IF done < Len(steps) THEN done + 1 ELSE done)
           /\ LET prefixed == \E i \in 1..done : steps[i] = "installComponent"
              IN  /\ deployCmd' = IF prefixed THEN prefix \o deployCmd ELSE deployCmd
                  /\ updateTrafficCmd' =
                       IF prefixed THEN prefix \o updateTrafficCmd ELSE updateTrafficCmd
           /\ IF done < Len(steps)
              THEN /\ failure' = setFailed("SetupError", steps[done + 1] \o " failed")
                   /\ pc' = "failed"
                   /\ warnings' = warnings
                   /\ execLog' = execLog
              ELSE /\ failure' = failure
                   /\ pc' = "deploying"
                   /\ warnings' = IF env.credFile = ""
                                  THEN warnings \cup {"No authentication found, authenticate "
                                                      \o "with 'google-github-actions/auth'."}
                                  ELSE warnings
                   /\ execLog' = Append(execLog, Launch("deploy", deployCmd'))
  /\ UNCHANGED <<inputs, env, service, outputs, call, result>>

\* the entry of the call that is in flight, resolved with the given output
resolved(log, out, parser) ==
  [log EXCEPT ![Len(log)] = [@ EXCEPT !.running = FALSE, !.exitCode = out.exitCode,
                                      !.stdout = out.stdout, !.stderr = out.stderr,
                                      !.parsedBy = parser]]

\* the deploy command exits: a non-zero exit code is fatal; otherwise its
\* standard output is parsed, the outputs are set, and when a traffic input is
\* set getExecOutput is called for the update-traffic command
DeployExits ==
  /\ pc = "deploying"
  /\ \E out \in ExecOutputs(DeployStdouts) :
       IF commandFailed(out)
       THEN /\ failure' = setFailed("ExternalProcessError",
                                    execError(commandString(deployCmd), out))
            /\ pc' = "failed"
            /\ execLog' = resolved(execLog, out, "")
            /\ outputs' = outputs
       ELSE LET res == parseDeployResponse(out.stdout, inputs.tag)
                log == resolved(execLog, out, "parseDeployResponse")
            IN  IF res.threw
                THEN /\ failure' = setFailed("ParseError", res.msg)
                     /\ pc' = "failed"
                     /\ execLog' = log
                     /\ outputs' = outputs
                ELSE /\ failure' = failure
                     /\ outputs' = setActionOutputs(outputs, res.outputs)
                     /\ IF inputs.revTraffic /= "" \/ inputs.tagTraffic /= ""
                        THEN /\ execLog' = Append(log, Launch("update-traffic", updateTrafficCmd))
                             /\ pc' = "updatingTraffic"
                        ELSE /\ execLog' = log
                             /\ pc' = "done"
  /\ UNCHANGED <<inputs, env, service, deployCmd, updateTrafficCmd, warnings, setupLog,
                 call, result>>

\* the update-traffic command exits
UpdateTrafficExits ==
  /\ pc = "updatingTraffic"
  /\ \E out \in ExecOutputs(UpdateTrafficStdouts) :
       IF commandFailed(out)
       THEN /\ failure' = setFailed("ExternalProcessError",
                                    execError(commandString(deployCmd), out))
            /\ pc' = "failed"
            /\ execLog' = resolved(execLog, out, "")
            /\ outputs' = outputs
       ELSE LET res == parseUpdateTrafficResponse(out.stdout)
            IN  /\ execLog' = resolved(execLog, out, "parseUpdateTrafficResponse")
                /\ IF res.threw
                   THEN /\ failure' = setFailed("ParseError", res.msg)
                        /\ pc' = "failed"
                        /\ outputs' = outputs
                   ELSE /\ failure' = failure
                        /\ pc' = "done"
                        /\ outputs' = setActionOutputs(outputs, res.outputs)
  /\ UNCHANGED <<inputs, env, service, deployCmd, updateTrafficCmd, warnings, setupLog,
                 call, result>>

Next == BuildCommands \/ SetupGcloud \/ DeployExits \/ UpdateTrafficExits

Spec == Init /\ [][Next]_vars

(***************************************************************************)
(* The exported functions called on their own, as the unit tests call      *)
(* them: kvToString, parseFlags, parseDeployResponse and                   *)
(* parseUpdateTrafficResponse, each on every argument of a bounded set.    *)
(***************************************************************************)
\* the sequences of at most n elements of S
RECURSIVE SeqsUpTo(_, _)
SeqsUpTo(S, n) ==
  IF n = 0 THEN {<<>>}
  ELSE LET shorter == SeqsUpTo(S, n - 1)
       IN  shorter \cup {Append(q, x) : q \in {r \in shorter : Len(r) = n - 1}, x \in S}

\* Record<string, string> values: distinct keys, in insertion order
KVKeys == {"FOO", "ZIP", "10", "2"}
KVPairs ==
  {kv \in SeqsUpTo(KVKeys \X {"bar", "zap"}, MaxPairs) :
     \A i, j \in 1..Len(kv) : i /= j => kv[i][1] /= kv[j][1]}

\* the strings given to parseFlags, as sequences of characters
FlagChars == {"a", " ", "=", Quote, "\n"}
FlagExamples ==
  {<<"-", "-", "f", "=", Quote, "a", " ", "b", Quote>>,
   <<"-", "-", "f", " ", Quote, "a", " ", "b", Quote>>}
FlagStrings == SeqsUpTo(FlagChars, MaxFlagLen) \cup FlagExamples

\* JSON.stringify of the values of the model
stringifyString(v) == IF v = Undefined THEN "null" ELSE Quote \o v \o Quote
stringifyTarget(e) ==
  IF e = NullTarget THEN "null" ELSE
  "{" \o Quote \o "tag" \o Quote \o ":" \o stringifyString(e.tag) \o ","
      \o Quote \o "url" \o Quote \o ":" \o stringifyString(e.url) \o "}"
stringifyService(url, traffic) ==
  "{" \o Quote \o "status" \o Quote \o ":{" \o Quote \o "url" \o Quote \o ":"
      \o stringifyString(url) \o "," \o Quote \o "traffic" \o Quote \o ":["
      \o join([i \in 1..Len(traffic) |-> stringifyTarget(traffic[i])], ",") \o "]}}"
stringifyItem(item) ==
  "{" \o Quote \o "serviceUrl" \o Quote \o ":" \o stringifyString(item.serviceUrl) \o ","
      \o Quote \o "urls" \o Quote \o ":["
      \o join([i \in 1..Len(item.urls) |-> stringifyString(item.urls[i])], ",") \o "]}"
stringifyItems(items) ==
  "[" \o join([i \in 1..Len(items) |-> stringifyItem(items[i])], ",") \o "]"

\* a standard output that holds a resource descriptor (run_v1.Schema$Service)
ServiceStdout(url, traffic) ==
  [text |-> stringifyService(url, traffic), t |-> "object", err |-> "",
   url |-> url, traffic |-> traffic, items |-> <<>>]

\* a standard output that holds a list of UpdateTrafficItem
ItemsStdout(items) ==
  [text |-> stringifyItems(items), t |-> "array", err |-> "",
   url |-> Undefined, traffic |-> <<>>, items |-> items]

\* a standard output that holds any other JSON value, or no JSON at all
OtherStdout(text, t, err) ==
  [text |-> text, t |-> t, err |-> err, url |-> Undefined, traffic |-> <<>>,
   items |-> <<>>]

TrafficTargets ==
  [tag : {"canary", "stable"},
   url : {"https://canary---a.example", "https://stable---a.example", Undefined}]
ServiceStdouts ==
  {ServiceStdout(u, tr) : u \in {"https://a.example", Undefined},
                          tr \in SeqsUpTo(TrafficTargets, MaxTraffic)}
\* JSON objects that are no resource descriptor: an entry of status.traffic is null
MalformedStdouts ==
  {ServiceStdout("https://a.example", tr) :
     tr \in {t \in SeqsUpTo(TrafficTargets \cup {NullTarget}, MaxTraffic) :
               \E i \in 1..Len(t) : t[i] = NullTarget}}
TrafficItems ==
  [serviceUrl : {"https://a.example", "https://b.example"},
   urls : {NoUrls, <<"https://t1---a.example">>,
           <<"https://t2---a.example", "https://t1---a.example">>}]
ItemsStdouts == {ItemsStdout(items) : items \in SeqsUpTo(TrafficItems, MaxItems) \ {<<>>}}
BlankStdouts ==
  {OtherStdout("", "invalid", "Unexpected end of JSON input"),
   OtherStdout("{}", "object", ""), OtherStdout("[]", "array", "")}
ScalarStdouts ==
  {OtherStdout("null", "null", ""), OtherStdout("5", "number", ""),
   OtherStdout("true", "boolean", ""), OtherStdout(Quote \o "ok" \o Quote, "string", "")}
InvalidStdouts ==
  {NotJson, OtherStdout("{", "invalid", "Unexpected end of JSON input")}
Stdouts == ServiceStdouts \cup ItemsStdouts \cup BlankStdouts \cup ScalarStdouts
             \cup InvalidStdouts \cup MalformedStdouts
Tags == {"", "canary", "blue"}

KvToStringCalls ==
  {[NoCall EXCEPT !.fn = "kvToString", !.kv = kv, !.separator = sep] :
     kv \in KVPairs, sep \in {Undefined, ";"}}
ParseFlagsCalls ==
  {[NoCall EXCEPT !.fn = "parseFlags", !.flags = f] : f \in FlagStrings}
ParseDeployResponseCalls ==
  {[NoCall EXCEPT !.fn = "parseDeployResponse", !.stdout = o, !.tag = tag] :
     o \in Stdouts, tag \in Tags}
ParseUpdateTrafficResponseCalls ==
  {[NoCall EXCEPT !.fn = "parseUpdateTrafficResponse", !.stdout = o] : o \in Stdouts}

\* the run variables while no run is under way
NoRun ==
  /\ inputs = <<>> /\ env = <<>> /\ pc = "idle" /\ service = ""
  /\ deployCmd = <<>> /\ updateTrafficCmd = <<>> /\ warnings = {}
  /\ setupLog = <<>> /\ execLog = <<>> /\ outputs = <<>> /\ failure = NoFailure

FunctionsInit ==
  /\ NoRun
  /\ call \in KvToStringCalls \cup ParseFlagsCalls \cup ParseDeployResponseCalls
               \cup ParseUpdateTrafficResponseCalls
  /\ result = NoResult

runVars == <<inputs, env, pc, service, deployCmd, updateTrafficCmd, warnings,
             setupLog, execLog, outputs, failure>>

\* the value a function returned
ReturnValue(v) == [done |-> TRUE, value |-> v, threw |-> FALSE, msg |-> ""]

\* what a parser returned or threw
ParserResult(r) ==
  [done |-> TRUE, value |-> r.outputs, threw |-> r.threw, msg |-> r.msg]

\* kvToString(kv, separator = ',')
CallKvToString ==
  /\ call.fn = "kvToString" /\ ~result.done
  /\ result' = ReturnValue(kvToString(call.kv, IF call.separator = Undefined THEN ","
                                                ELSE call.separator))
  /\ UNCHANGED <<runVars, call>>

CallParseFlags ==
  /\ call.fn = "parseFlags" /\ ~result.done
  /\ result' = ReturnValue(parseFlags(call.flags))
  /\ UNCHANGED <<runVars, call>>

CallParseDeployResponse ==
  /\ call.fn = "parseDeployResponse" /\ ~result.done
  /\ result' = ParserResult(parseDeployResponse(call.stdout, call.tag))
  /\ UNCHANGED <<runVars, call>>

CallParseUpdateTrafficResponse ==
  /\ call.fn = "parseUpdateTrafficResponse" /\ ~result.done
  /\ result' = ParserResult(parseUpdateTrafficResponse(call.stdout))
  /\ UNCHANGED <<runVars, call>>

FunctionsNext ==
  \/ CallKvToString
  \/ CallParseFlags
  \/ CallParseDeployResponse
  \/ CallParseUpdateTrafficResponse

Functions == FunctionsInit /\ [][FunctionsNext]_vars

(***************************************************************************)
(* Properties of run.                                                      *)
(***************************************************************************)
Started == pc /= "start"
ConfigurationFailure == pc = "failed" /\ failure.type = "ConfigurationError"
HasTrafficSpec == inputs.revTraffic /= "" \/ inputs.tagTraffic /= ""
Executed(name) == \E i \in 1..Len(execLog) : execLog[i].name = name
InFlight == {i \in 1..Len(execLog) : execLog[i].running}

\* the argument vector without the gcloud component that run prepends to it
withoutComponent(cmd) ==
  IF Len(cmd) > 0 /\ inputs.gcloudComponent /= "" /\ cmd[1] = inputs.gcloudComponent
  THEN Tail(cmd) ELSE cmd

startsWith(cmd, toks) == Len(cmd) >= Len(toks) /\ SubSeq(cmd, 1, Len(toks)) = toks

\* C1: the update-traffic command is executed only after the deploy command
\* has finished with exit code 0: a run whose deploy command exits non-zero
\* never executes update-traffic, and the two commands are never in flight
\* at the same time.
C1_TrafficOnlyAfterSuccessfulDeploy ==
  /\ Cardinality(InFlight) <= 1
  /\ \A i \in 1..Len(execLog) :
       execLog[i].name = "update-traffic" =>
         /\ i = 2
         /\ execLog[1].name = "deploy"
         /\ ~execLog[1].running
         /\ execLog[1].exitCode = 0
  /\ \A i \in 1..Len(execLog) :
       (execLog[i].name = "deploy" /\ ~execLog[i].running /\ execLog[i].exitCode /= 0)
         => /\ ~Executed("update-traffic")
            /\ pc = "failed"

C1_Witness ==
  /\ pc = "updatingTraffic"
  /\ Len(execLog) = 2
  /\ execLog[1].exitCode = 0 /\ ~execLog[1].running
  /\ execLog[2].name = "update-traffic" /\ execLog[2].running

\* C2: a request whose target is a named service (no job, no metadata file)
\* with an image (and no source) and exactly one traffic spec builds two
\* commands, `run deploy <service>` and `run services update-traffic <service>`
\* with --to-revisions or --to-tags; the commands executed are these two, in
\* this order, the first parsed by parseDeployResponse and the second by
\* parseUpdateTrafficResponse, and a run that ends without failure has
\* executed exactly the two.
C2_Case ==
  /\ inputs.service /= "" /\ inputs.image /= ""
  /\ inputs.job = "" /\ inputs.metadata = "" /\ inputs.source = ""
  /\ (inputs.revTraffic /= "") /= (inputs.tagTraffic /= "")

C2_DeployThenUpdateTraffic ==
  C2_Case =>
    /\ (Started /\ ~ConfigurationFailure) =>
         /\ startsWith(withoutComponent(deployCmd), <<"run", "deploy", inputs.service>>)
         /\ startsWith(withoutComponent(deployCmd),
                       <<"run", "deploy", inputs.service, "--image", inputs.image>>)
         /\ startsWith(withoutComponent(updateTrafficCmd),
                       <<"run", "services", "update-traffic", inputs.service>>
                         \o (IF inputs.revTraffic /= ""
                             THEN <<"--to-revisions", inputs.revTraffic>>
                             ELSE <<"--to-tags", inputs.tagTraffic>>))
         /\ includes(updateTrafficCmd, "--to-revisions") = (inputs.revTraffic /= "")
         /\ includes(updateTrafficCmd, "--to-tags") = (inputs.tagTraffic /= "")
    /\ Len(execLog) <= 2
    /\ Len(execLog) >= 1 =>
         /\ execLog[1].name = "deploy" /\ execLog[1].args = deployCmd
         /\ execLog[1].parsedBy \in {"", "parseDeployResponse"}
         /\ (~execLog[1].running /\ execLog[1].exitCode = 0)
              => execLog[1].parsedBy = "parseDeployResponse"
    /\ Len(execLog) = 2 =>
         /\ execLog[2].name = "update-traffic" /\ execLog[2].args = updateTrafficCmd
         /\ execLog[2].parsedBy \in {"", "parseUpdateTrafficResponse"}
         /\ (~execLog[2].running /\ execLog[2].exitCode = 0)
              => execLog[2].parsedBy = "parseUpdateTrafficResponse"
    /\ pc = "done" =>
         /\ Len(execLog) = 2
         /\ execLog[1].parsedBy = "parseDeployResponse"
         /\ execLog[2].parsedBy = "parseUpdateTrafficResponse"

C2_Witness ==
  /\ C2_Case /\ pc = "done"
  /\ inputs.tagTraffic /= ""
  /\ Len(execLog) = 2
  /\ execLog[2].parsedBy = "parseUpdateTrafficResponse"

\* C3: a request in which revision_traffic and tag_traffic are both set
\* fails with a configuration error, whatever its other inputs are, and
\* nothing is built or executed for it.
C3_BothTrafficSpecsRejected ==
  (Started /\ inputs.revTraffic /= "" /\ inputs.tagTraffic /= "") =>
    /\ ConfigurationFailure
    /\ failure = setFailed("ConfigurationError",
         "Only one of 'revision_traffic' or 'tag_traffic' inputs can be set.")
    /\ deployCmd = <<>> /\ updateTrafficCmd = <<>> /\ execLog = <<>>

C3_Witness ==
  /\ ConfigurationFailure
  /\ inputs.revTraffic /= "" /\ inputs.tagTraffic /= ""
  /\ inputs.service /= "" /\ inputs.image /= "" /\ inputs.metadata /= ""

\* C4: a request that sets a traffic spec while the service input is empty
\* fails with a configuration error.
C4_TrafficSpecNeedsService ==
  (Started /\ HasTrafficSpec /\ inputs.service = "") =>
    /\ ConfigurationFailure
    /\ failure.msg \in
         {setFailed("", "No service name set.").msg,
          setFailed("", "Only one of 'revision_traffic' or 'tag_traffic' inputs can be set.").msg}
    /\ execLog = <<>>

C4_Witness ==
  /\ ConfigurationFailure
  /\ failure = setFailed("ConfigurationError", "No service name set.")
  /\ inputs.tagTraffic /= "" /\ inputs.service = ""

C6_Declared == readMetadata(inputs.metadata).name
C6_Differs ==
  /\ inputs.metadata /= "" /\ C6_Declared /= Undefined
  /\ inputs.service /= "" /\ inputs.service /= C6_Declared

C6_MetadataNameMustMatch ==
  (Started /\ inputs.metadata /= "") =>
    /\ C6_Differs => (ConfigurationFailure /\ execLog = <<>>)
    /\ ~C6_Differs =>
         failure.msg /=
           setFailed("", nameMismatch(inputs.metadata, C6_Declared, inputs.service)).msg
    /\ (pc /= "failed" /\ C6_Declared /= Undefined) => service = C6_Declared

C6_Witness ==
  /\ C6_Differs
  /\ failure = setFailed("ConfigurationError",
                 nameMismatch(inputs.metadata, C6_Declared, inputs.service))

\* C7: a configuration error is raised before any external command is
\* executed: a run that has failed with a configuration error has installed
\* nothing and invoked no command, and a run that has invoked a command is
\* one whose inputs raise no configuration error.
C7_ConfigurationErrorsPrecedeExecution ==
  /\ failure.type = "ConfigurationError" =>
       (pc = "failed" /\ execLog = <<>> /\ setupLog = <<>>)
  /\ (execLog /= <<>> \/ setupLog /= <<>>) =>
       buildCommands(inputs, env.GITHUB_SHA).error = ""
  /\ (Started /\ buildCommands(inputs, env.GITHUB_SHA).error /= "") =>
       ConfigurationFailure

C7_Witness ==
  /\ ConfigurationFailure
  /\ inputs.metadata = "cronjob.yaml"
  /\ failure.msg /= setFailed("", "No service name set.").msg
  /\ inputs.service = "" /\ inputs.job = ""
  /\ inputs.gcloudComponent = "beta"

\* the compiled env vars of the request
CompiledEnvVars == parseKVStringAndFile(inputs.envVars, inputs.envVarsFile.kv)
ServiceDeploy == inputs.metadata = "" /\ inputs.job = ""
JobDeploy == inputs.metadata = "" /\ inputs.job /= ""
Built == Started /\ ~ConfigurationFailure

\* C8: the command of a service deploy carries a non-empty env-var mapping
\* under --update-env-vars when the env-var strategy is merge and under
\* --set-env-vars when it is overwrite, never under both; independently, a
\* non-empty secrets mapping is carried under --update-secrets for merge and
\* under --set-secrets for overwrite.
C8_StrategyNamesTheFlag ==
  (Built /\ ServiceDeploy) =>
    /\ Len(CompiledEnvVars) > 0 =>
         /\ inputs.envVarsUpdateStrategy \in {"merge", "overwrite"}
         /\ inputs.envVarsUpdateStrategy = "merge" =>
              /\ hasRun(deployCmd, <<"--update-env-vars", joinKVStringForGCloud(CompiledEnvVars)>>)
              /\ ~includes(deployCmd, "--set-env-vars")
         /\ inputs.envVarsUpdateStrategy = "overwrite" =>
              /\ hasRun(deployCmd, <<"--set-env-vars", joinKVStringForGCloud(CompiledEnvVars)>>)
              /\ ~includes(deployCmd, "--update-env-vars")
    /\ Len(inputs.secrets) > 0 =>
         /\ inputs.secretsUpdateStrategy \in {"merge", "overwrite"}
         /\ inputs.secretsUpdateStrategy = "merge" =>
              /\ hasRun(deployCmd, <<"--update-secrets", joinKVStringForGCloud(inputs.secrets)>>)
              /\ ~includes(deployCmd, "--set-secrets")
         /\ inputs.secretsUpdateStrategy = "overwrite" =>
              /\ hasRun(deployCmd, <<"--set-secrets", joinKVStringForGCloud(inputs.secrets)>>)
              /\ ~includes(deployCmd, "--update-secrets")

C8_Witness ==
  /\ Built /\ ServiceDeploy
  /\ Len(CompiledEnvVars) > 0 /\ inputs.envVarsUpdateStrategy = "overwrite"
  /\ Len(inputs.secrets) > 0 /\ inputs.secretsUpdateStrategy = "merge"
  /\ includes(deployCmd, "--set-env-vars") /\ includes(deployCmd, "--update-secrets")

\* C9, as stated: a request whose env-var update strategy or secrets update
\* strategy is neither merge nor overwrite fails with a configuration error.
C9_UnknownStrategy(strategy) == strategy \notin {"merge", "overwrite"}

C9_EnvVarsExamined == inputs.metadata = "" /\ Len(CompiledEnvVars) > 0
C9_SecretsExamined == inputs.metadata = "" /\ Len(inputs.secrets) > 0

C10_JobSecretsWarning ==
  "Cloud Run does not allow updating secrets on jobs, ignoring " \o Quote
    \o "secrets_update_strategy" \o Quote \o " value of " \o Quote \o "merge" \o Quote

C10_JobSecretsAreSet ==
  (Built /\ JobDeploy /\ Len(inputs.secrets) > 0) =>
    /\ hasRun(deployCmd, <<"--set-secrets", joinKVStringForGCloud(inputs.secrets)>>)
    /\ ~includes(deployCmd, "--update-secrets")
    /\ startsWith(withoutComponent(deployCmd), <<"run", "jobs", "deploy", inputs.job>>)
    /\ inputs.secretsUpdateStrategy = "merge" => C10_JobSecretsWarning \in warnings

C10_Witness ==
  /\ Built /\ JobDeploy /\ Len(inputs.secrets) > 0
  /\ inputs.secretsUpdateStrategy = "merge"
  /\ includes(deployCmd, "--set-secrets")
  /\ C10_JobSecretsWarning \in warnings

\* the flag that carries the labels of a service deploy or of a job deploy
C11_Flag == IF inputs.job /= "" THEN "--labels" ELSE "--update-labels"

\* the label pairs a request asks for, given the commit-sha default: every
\* explicit pair, and each default pair whose key no explicit pair has
C11_Labels(commitSha) ==
  {inputs.labels[i] : i \in 1..Len(inputs.labels)}
    \cup {d \in ({<<"managed-by", "github-actions">>} \cup commitSha) :
            ~inputs.skipDefaultLabels /\ ~hasKey(inputs.labels, d[1])}

\* the command carries exactly the given pairs, in some order, under the
\* labels flag, and carries no labels flag when there is no pair
C11_Carries(pairs) ==
  IF pairs = {}
  THEN ~includes(deployCmd, C11_Flag)
  ELSE \E kv \in [1..Cardinality(pairs) -> pairs] :
         /\ {kv[i] : i \in 1..Cardinality(pairs)} = pairs
         /\ hasRun(deployCmd, <<C11_Flag, joinKVStringForGCloud(kv)>>)

\* C11, as stated: the labels of a service or job deploy are the default
\* labels managed-by=github-actions and commit-sha=<revision>, overlaid by the
\* explicit labels, the explicit value winning a collision; with the default
\* labels suppressed only the explicit labels are passed.
C11_Original ==
  (Built /\ inputs.metadata = "") =>
    C11_Carries(C11_Labels({<<"commit-sha", env.GITHUB_SHA>>}))

\* C11, amended: the commit-sha default is the revision in lower case, and
\* it is a default label only when the environment gives a revision
\* (GITHUB_SHA is non-empty); otherwise as stated.
C11_LabelsOverlayDefaults ==
  (Built /\ inputs.metadata = "") =>
    C11_Carries(C11_Labels(IF env.GITHUB_SHA = "" THEN {}
                           ELSE {<<"commit-sha", toLowerCase(env.GITHUB_SHA)>>}))

C11_Witness ==
  /\ Built /\ inputs.metadata = "" /\ inputs.job /= ""
  /\ ~inputs.skipDefaultLabels /\ env.GITHUB_SHA /= ""
  /\ hasKey(inputs.labels, "commit-sha")
  /\ hasRun(deployCmd, <<"--labels",
                         "^,^managed-by=github-actions,commit-sha=custom-value,foo=bar">>)

\* the part of a command that precedes its n last tokens
C12_Head(cmd, n) == SubSeq(cmd, 1, Len(cmd) - n)

\* the n last tokens of a command
C12_Last(cmd, n) == SubSeq(cmd, Len(cmd) - n + 1, Len(cmd))

\* the request with its two raw pass-through flag inputs left empty
C12_Typed == [inputs EXCEPT !.flags = <<>>, !.updateTrafficFlags = <<>>]

\* the flags common to both commands are in the given part of a command
C12_HasCommon(head) ==
  /\ hasRun(head, <<"--format", "json">>)
  /\ hasRun(head, <<"--region", joinRegions(inputs.region)>>)
  /\ inputs.projectId /= "" => hasRun(head, <<"--project", inputs.projectId>>)

\* C12: in every generated command the tokens of the raw pass-through flags
\* are the last arguments: what precedes them is the whole command of the
\* same request without pass-through flags, which holds the output-format
\* flag, --region, --project and every flag derived from a typed input.
C12_PassThroughFlagsLast ==
  Built =>
    LET d == Len(parseFlags(inputs.flags))
        u == Len(parseFlags(inputs.updateTrafficFlags))
        typed == buildCommands(C12_Typed, env.GITHUB_SHA)
    IN  /\ Len(deployCmd) >= d /\ Len(updateTrafficCmd) >= u
        /\ C12_Last(deployCmd, d) = parseFlags(inputs.flags)
        /\ C12_Last(updateTrafficCmd, u) = parseFlags(inputs.updateTrafficFlags)
        /\ withoutComponent(C12_Head(deployCmd, d)) = typed.deployCmd
        /\ withoutComponent(C12_Head(updateTrafficCmd, u)) = typed.updateTrafficCmd
        /\ C12_HasCommon(C12_Head(deployCmd, d))
        /\ C12_HasCommon(C12_Head(updateTrafficCmd, u))
        /\ (ServiceDeploy /\ inputs.tag /= "") =>
             hasRun(C12_Head(deployCmd, d), <<"--tag", inputs.tag>>)
        /\ (inputs.metadata = "" /\ inputs.image /= "") =>
             hasRun(C12_Head(deployCmd, d), <<"--image", inputs.image>>)
        /\ \A i \in 1..Len(execLog) :
             execLog[i].args = IF execLog[i].name = "deploy" THEN deployCmd
                               ELSE updateTrafficCmd

C12_Witness ==
  /\ pc = "updatingTraffic"
  /\ inputs.gcloudComponent = "alpha" /\ inputs.projectId /= "" /\ inputs.tag /= ""
  /\ Len(inputs.region) > 1
  /\ C12_Last(execLog[1].args, 2) = <<"--cpu", "2">>
  /\ C12_Last(execLog[2].args, 2) = <<"--q", Quote \o "a b" \o Quote>>

(***************************************************************************)
(* Properties of the exported functions (specification Functions).         *)
(***************************************************************************)
\* the call of the named function has returned or thrown
Called(fn) == call.fn = fn /\ result.done

\* the pairs of a mapping as key=value, first to last, joined by a separator
RECURSIVE C13_Joined(_, _)
C13_Joined(kv, sep) ==
  IF Len(kv) = 0 THEN ""
  ELSE IF Len(kv) = 1 THEN kv[1][1] \o "=" \o kv[1][2]
  ELSE C13_Joined(SubSeq(kv, 1, Len(kv) - 1), sep) \o sep
         \o kv[Len(kv)][1] \o "=" \o kv[Len(kv)][2]

C13_IndexKeys(kv) == {i \in 1..Len(kv) : arrayIndex(kv[i][1]) >= 0}

C14_Separator(c) == c \in {" ", "\t", "\n", "="}

\* the tokens of s from position i on, cur being the token under way and
\* inQuote telling whether position i lies inside a double-quoted substring:
\* a separator outside quotes ends the token, every other character is kept
RECURSIVE C14_Scan(_, _, _, _)
C14_Scan(s, i, inQuote, cur) ==
  IF i > Len(s) THEN (IF cur /= "" THEN <<cur>> ELSE <<>>)
  ELSE IF s[i] = Quote THEN C14_Scan(s, i + 1, ~inQuote, cur \o s[i])
  ELSE IF ~inQuote /\ C14_Separator(s[i])
  THEN (IF cur /= "" THEN <<cur>> ELSE <<>>) \o C14_Scan(s, i + 1, FALSE, "")
  ELSE C14_Scan(s, i + 1, inQuote, cur \o s[i])

\* every double quote of s opens or closes a quoted substring
C14_Balanced(s) == Cardinality({i \in 1..Len(s) : s[i] = Quote}) % 2 = 0

\* C14: parseFlags splits its input on whitespace and "=" that lie outside
\* double-quoted substrings and never splits inside a double-quoted
\* substring; a quoted substring is emitted still wrapped in its quotes, so
\* that --f="a b" and --f "a b" give the same two tokens.
C14_SplitsOutsideQuotesOnly ==
  (Called("parseFlags") /\ C14_Balanced(call.flags)) =>
    /\ result.value = C14_Scan(call.flags, 1, FALSE, "")
    /\ call.flags \in FlagExamples => result.value = <<"--f", Quote \o "a b" \o Quote>>

\* the entries of status.traffic that carry the requested tag
C15_Tagged == {i \in 1..Len(call.stdout.traffic) : call.stdout.traffic[i].tag = call.tag}

\* C15: parseDeployResponse on a JSON resource descriptor returns as url the
\* url of the first status.traffic entry whose tag equals the requested tag
\* when a tag was requested and such an entry exists; in every other case
\* (no tag requested, or a tag that no entry carries) it returns status.url,
\* without error.
C15_TagUrlSupersedesStatusUrl ==
  (Called("parseDeployResponse") /\ call.stdout \in ServiceStdouts) =>
    /\ ~result.threw
    /\ result.value.hasUrl
    /\ (call.tag /= "" /\ C15_Tagged /= {}) =>
         \E i \in C15_Tagged :
           /\ \A j \in C15_Tagged : i <= j
           /\ result.value.url = call.stdout.traffic[i].url
    /\ (call.tag = "" \/ C15_Tagged = {}) => result.value.url = call.stdout.url

C15_Witness ==
  /\ Called("parseDeployResponse") /\ call.stdout \in ServiceStdouts
  /\ call.tag = "canary" /\ Cardinality(C15_Tagged) = 2
  /\ call.stdout.url = "https://a.example"
  /\ call.stdout.traffic[1].url = "https://canary---a.example"
  /\ call.stdout.traffic[2].url = "https://stable---a.example"
  /\ result.value.url = "https://canary---a.example"

\* the items of the response whose urls list is non-empty
C16_WithUrls == {i \in 1..Len(call.stdout.items) : Len(call.stdout.items[i].urls) > 0}

\* C16: parseUpdateTrafficResponse on a non-empty JSON array returns as url
\* the first element of urls of the first item, in array order, whose urls
\* list is non-empty; when no item has a non-empty urls list it returns the
\* serviceUrl of the first item of the array.
C16_FirstTagUrlElseServiceUrl ==
  (Called("parseUpdateTrafficResponse") /\ call.stdout \in ItemsStdouts) =>
    /\ ~result.threw
    /\ result.value.hasUrl
    /\ C16_WithUrls /= {} =>
         \E i \in C16_WithUrls :
           /\ \A j \in C16_WithUrls : i <= j
           /\ result.value.url = call.stdout.items[i].urls[1]
    /\ C16_WithUrls = {} => result.value.url = call.stdout.items[1].serviceUrl

C16_Witness ==
  /\ Called("parseUpdateTrafficResponse") /\ call.stdout \in ItemsStdouts
  /\ Len(call.stdout.items) = 2
  /\ call.stdout.items[1].urls = NoUrls
  /\ call.stdout.items[2].urls = <<"https://t2---a.example", "https://t1---a.example">>
  /\ result.value.url = "https://t2---a.example"

\* a call of one of the two parsers has returned or thrown
C17_ParserCalled == Called("parseDeployResponse") \/ Called("parseUpdateTrafficResponse")

C18_Message(syntaxError) ==
  IF call.fn = "parseDeployResponse"
  THEN "failed to parse deploy response: " \o syntaxError \o ", stdout: "
         \o call.stdout.text \o ", inputs: {" \o Quote \o "tag" \o Quote \o ":"
         \o Quote \o call.tag \o Quote \o "}"
  ELSE "failed to parse update traffic response: " \o syntaxError \o ", stdout: "
         \o call.stdout.text

\* the syntax-error messages of the model with their first letter lowered
C18_Lowered(syntaxError) ==
  CASE syntaxError = "Unexpected token o in JSON at position 1"
         -> "unexpected token o in JSON at position 1"
    [] syntaxError = "Unexpected end of JSON input" -> "unexpected end of JSON input"

\* C18, as stated: for every non-empty stdout that is not valid JSON, both
\* parsers raise an error whose message contains the underlying syntax-error
\* message and the raw stdout text; the message of parseDeployResponse also
\* contains the inputs used for parsing.
C18_Original ==
  (C17_ParserCalled /\ call.stdout \in InvalidStdouts) =>
    /\ result.threw
    /\ result.msg = C18_Message(call.stdout.err)

\* C18, amended: the message contains the syntax-error message with its
\* first letter in lower case (as errorMessage renders it), the raw stdout
\* text and, for parseDeployResponse, the inputs used for parsing.
C18_InvalidJsonRaises ==
  (C17_ParserCalled /\ call.stdout \in InvalidStdouts) =>
    /\ result.threw
    /\ ~result.value.hasUrl
    /\ result.msg = C18_Message(C18_Lowered(call.stdout.err))

C18_Witness ==
  /\ Called("parseDeployResponse") /\ call.stdout = NotJson /\ call.tag = "canary"
  /\ result.threw
  /\ result.msg = "failed to parse deploy response: unexpected token o in JSON at "
                     \o "position 1, stdout: not json, inputs: {" \o Quote \o "tag"
                     \o Quote \o ":" \o Quote \o "canary" \o Quote \o "}"

(***************************************************************************)
(* Further properties of run (specification Spec).                         *)
(***************************************************************************)
\* the executed commands that have exited with a non-zero code
C19_Failed == {i \in 1..Len(execLog) : ~execLog[i].running /\ execLog[i].exitCode /= 0}

\* what the failure message says of a command that exited non-zero: its
\* standard error or, when that is empty, a placeholder with the exit code
C19_Detail(entry) ==
  IF entry.stderr /= "" THEN entry.stderr
  ELSE "command exited " \o ToString(entry.exitCode) \o ", but stderr had no output"

\* C19: whenever an executed command (deploy or update-traffic) exits
\* non-zero, the run fails and the failure message contains the exact command
\* string of the command that failed together with its stderr or, when stderr
\* is empty, a placeholder that states the exit code and that stderr had no
\* output.
C19_FailureNamesFailedCommand ==
  \A i \in C19_Failed :
    /\ pc = "failed"
    /\ failure.msg =
         "google-github-actions/deploy-cloudrun failed with: "
           \o "failed to execute gcloud command '" \o execLog[i].tool \o " "
           \o join(execLog[i].args, " ") \o "': " \o C19_Detail(execLog[i])

\* the same, of the deploy command alone
C19_DeployFailureNamesDeploy ==
  \A i \in C19_Failed :
    execLog[i].name = "deploy" =>
      /\ pc = "failed"
      /\ failure.msg =
           "google-github-actions/deploy-cloudrun failed with: "
             \o "failed to execute gcloud command '" \o execLog[i].tool \o " "
             \o join(execLog[i].args, " ") \o "': " \o C19_Detail(execLog[i])

\* what the run deploys or replaces is a Job: a job is named, or the
\* metadata file is of kind Job
C20_TargetIsJob ==
  \/ inputs.job /= ""
  \/ inputs.metadata /= "" /\ readMetadata(inputs.metadata).kind = "Job"

\* C20: an update-traffic command is executed only in runs whose target is a
\* Service: no run that deploys or replaces a Job (by job name or by a
\* metadata file of kind Job) executes `run services update-traffic`.
C20_TrafficOnlyForServices ==
  C20_TargetIsJob =>
    /\ ~Executed("update-traffic")
    /\ \A i \in 1..Len(execLog) :
         ~hasRun(execLog[i].args, <<"run", "services", "update-traffic">>)

\* the same, of the jobs deployed by name alone
C20_NamedJobsGetNoTraffic ==
  inputs.job /= "" => ~Executed("update-traffic")

\* how many of the service, job and metadata inputs the request populates
C21_Populated ==
  Cardinality({k \in {"service", "job", "metadata"} :
                 \/ k = "service" /\ inputs.service /= ""
                 \/ k = "job" /\ inputs.job /= ""
                 \/ k = "metadata" /\ inputs.metadata /= ""})

\* C21: exactly one of service name, job name and metadata file is populated
\* in every request for which a command is built: a request that populates
\* none of the three, or more than one of them, fails with a configuration
\* error and executes no command.
C21_ExactlyOneTarget ==
  (Started /\ C21_Populated /= 1) => (ConfigurationFailure /\ execLog = <<>>)

\* a request that names a service and sets one traffic input, with neither
\* image nor source (and no job or metadata file)
C22_Case ==
  /\ inputs.service /= "" /\ inputs.job = "" /\ inputs.metadata = ""
  /\ inputs.image = "" /\ inputs.source = ""
  /\ (inputs.revTraffic /= "") /= (inputs.tagTraffic /= "")

\* C22: for a request that names a service and sets a traffic spec with
\* neither image nor source, exactly one command is built and executed: a
\* single `run services update-traffic` with --to-revisions or --to-tags; no
\* deploy command is run and none of the deploy-only flags appears.
C22_TrafficOnlyRunsOneCommand ==
  C22_Case =>
    /\ \A i \in 1..Len(execLog) :
         /\ execLog[i].name = "update-traffic"
         /\ startsWith(withoutComponent(execLog[i].args),
                       <<"run", "services", "update-traffic", inputs.service>>)
         /\ includes(execLog[i].args, "--to-revisions") = (inputs.revTraffic /= "")
         /\ includes(execLog[i].args, "--to-tags") = (inputs.tagTraffic /= "")
         /\ \A f \in {"--set-env-vars", "--update-env-vars", "--set-secrets",
                      "--update-secrets", "--update-labels", "--labels", "--tag",
                      "--revision-suffix", "--no-traffic", "--timeout"} :
              ~includes(execLog[i].args, f)
    /\ Len(execLog) <= 1
    /\ pc = "done" => Len(execLog) = 1

\* the warning an earlier version of run gave for an input that the metadata
\* file overrides
C23_Warning(key) ==
  "Using metadata YAML, ignoring " \o Quote \o key \o Quote \o " input"

\* the deployment-shaping inputs that the request supplies
C23_Supplied ==
  {k \in {"image", "source", "env_vars", "secrets", "labels", "tag", "suffix",
          "no_traffic", "timeout"} :
     \/ k = "image" /\ inputs.image /= ""
     \/ k = "source" /\ inputs.source /= ""
     \/ k = "env_vars" /\ Len(inputs.envVars) > 0
     \/ k = "secrets" /\ Len(inputs.secrets) > 0
     \/ k = "labels" /\ Len(inputs.labels) > 0
     \/ k = "tag" /\ inputs.tag /= ""
     \/ k = "suffix" /\ inputs.suffix /= ""
     \/ k = "no_traffic" /\ inputs.noTraffic
     \/ k = "timeout" /\ inputs.timeout /= ""}

\* the flags of the deployment-shaping inputs
C23_ShapingFlags ==
  {"--image", "--source", "--set-env-vars", "--update-env-vars", "--set-secrets",
   "--update-secrets", "--labels", "--update-labels", "--tag", "--revision-suffix",
   "--no-traffic", "--timeout"}

\* a replace command was built from a metadata file
C23_Replaces ==
  /\ inputs.metadata /= ""
  /\ pc \notin {"start", "failed"} \/ Len(execLog) > 0

\* C23: when a metadata file is given, every other deployment-shaping input
\* that was supplied is ignored with a warning: none of its flags appears in
\* the generated replace command and a warning is emitted for each such
\* supplied input.
C23_IgnoredWithWarning ==
  C23_Replaces =>
    /\ \A f \in C23_ShapingFlags : ~includes(deployCmd, f)
    /\ Cardinality(warnings) >= Cardinality(C23_Supplied)
    /\ \A k \in C23_Supplied : C23_Warning(k) \in warnings

\* the same, of the flags alone
C23_NoFlagOfIgnoredInput ==
  C23_Replaces => \A f \in C23_ShapingFlags : ~includes(deployCmd, f)

\* C25: a run that ends in failure has emitted no output: the url output is
\* set only in runs in which every executed command exited 0 and every
\* response parsed, so a failure of the update-traffic step never leaves a
\* url that was set from the deploy step.
C25_FailureEmitsNoOutput ==
  /\ pc = "failed" => outputs = <<>>
  /\ outputs /= <<>> =>
       \A i \in 1..Len(execLog) :
         execLog[i].running \/ (execLog[i].exitCode = 0 /\ execLog[i].parsedBy /= "")

\* the same, of the runs that fail before the update-traffic command is
\* executed
C25_EarlyFailureEmitsNoOutput ==
  (pc = "failed" /\ ~Executed("update-traffic")) => outputs = <<>>

\* the declared kind of the metadata file, and whether it declares a name
C26_Kind == readMetadata(inputs.metadata).kind
C26_Named == C6_Declared /= Undefined /\ C6_Declared /= ""

\* C26: for a metadata file, the command family follows the file's declared
\* kind: kind Service gives `run services replace <file>`, kind Job gives
\* `run jobs replace <file>`, and every other or missing kind, like a missing
\* metadata.name, fails with an error before any command is executed.
C26_FamilyFollowsKind ==
  (Started /\ inputs.metadata /= "") =>
    /\ (~C26_Named \/ C26_Kind \notin {"Service", "Job"}) =>
         (ConfigurationFailure /\ execLog = <<>> /\ deployCmd = <<>>)
    /\ Built =>
         /\ C26_Kind = "Service" =>
              startsWith(withoutComponent(deployCmd),
                         <<"run", "services", "replace", inputs.metadata>>)
         /\ C26_Kind = "Job" =>
              startsWith(withoutComponent(deployCmd),
                         <<"run", "jobs", "replace", inputs.metadata>>)
         /\ \A i \in 1..Len(execLog) :
              execLog[i].name = "deploy" => execLog[i].args = deployCmd

C26_Witness ==
  /\ inputs.metadata /= "" /\ C26_Kind = "Job" /\ pc = "done"
  /\ Len(execLog) = 1 /\ execLog[1].exitCode = 0
  /\ hasRun(execLog[1].args, <<"run", "jobs", "replace", inputs.metadata>>)

\* the flags common to both commands, as the request gives them
C27_Common ==
  <<"--format", "json", "--region", joinRegions(inputs.region)>>
    \o (IF inputs.projectId /= "" THEN <<"--project", inputs.projectId>> ELSE <<>>)

\* the gcloud component at the head of a command, "" when there is none
C27_Component(cmd) ==
  IF Len(cmd) > 0 /\ inputs.gcloudComponent /= "" /\ cmd[1] = inputs.gcloudComponent
  THEN cmd[1] ELSE ""

\* C27: the two pass-through flag inputs do not leak into each other's
\* command: tokens of flags appear only in the deploy/replace command and
\* tokens of update_traffic_flags appear only in the update-traffic command,
\* while the output format, region, project and component prefix are
\* identical in both commands.
C27_PassThroughFlagsDoNotLeak ==
  Built =>
    LET d == parseFlags(inputs.flags)
        u == parseFlags(inputs.updateTrafficFlags)
    IN  /\ \A i \in 1..Len(d) : includes(deployCmd, d[i]) /\ ~includes(updateTrafficCmd, d[i])
        /\ \A i \in 1..Len(u) : includes(updateTrafficCmd, u[i]) /\ ~includes(deployCmd, u[i])
        /\ hasRun(deployCmd, C27_Common) /\ hasRun(updateTrafficCmd, C27_Common)
        /\ C27_Component(deployCmd) = C27_Component(updateTrafficCmd)
        /\ \A i \in 1..Len(execLog) :
             execLog[i].args = IF execLog[i].name = "update-traffic" THEN updateTrafficCmd
                               ELSE deployCmd

C27_Witness ==
  /\ pc = "done" /\ Len(execLog) = 2
  /\ inputs.flags /= <<>> /\ inputs.updateTrafficFlags /= <<>>
  /\ inputs.gcloudComponent /= "" /\ inputs.projectId /= "" /\ Len(inputs.region) > 1
  /\ execLog[1].args[1] = inputs.gcloudComponent
  /\ execLog[2].args[1] = inputs.gcloudComponent
  /\ includes(execLog[1].args, "--cpu") /\ includes(execLog[2].args, "--q")

\* a request with one traffic input, no service input and a metadata file of
\* kind Service that declares metadata.name, and no other conflict of inputs
C28_Case ==
  /\ (inputs.revTraffic /= "") /= (inputs.tagTraffic /= "")
  /\ inputs.service = "" /\ inputs.job = ""
  /\ inputs.metadata /= "" /\ C26_Named /\ C26_Kind = "Service"
  /\ ~(inputs.source /= "" /\ inputs.image /= "")

\* C28: a traffic spec is rejected for a missing service name only when no
\* service name is resolvable: a request with a traffic spec, no service
\* input and a metadata file that declares metadata.name is accepted, and its
\* update-traffic command targets the name declared in the file.
C28_MetadataNameResolvesService ==
  (Started /\ C28_Case) =>
    /\ ~ConfigurationFailure
    /\ startsWith(withoutComponent(updateTrafficCmd),
                  <<"run", "services", "update-traffic", C6_Declared>>)

\* what the program does with such a request: it is rejected before the file
\* is read, and nothing is executed
C28_RejectedBeforeFileIsRead ==
  (Started /\ C28_Case) =>
    /\ failure = setFailed("ConfigurationError", "No service name set.")
    /\ execLog = <<>>

\* the value the url output has at the end: that of the last setOutput call
C29_Url == IF outputs = <<>> THEN Undefined ELSE outputs[Len(outputs)].value

\* what the two parsers extract from the responses of the two commands
C29_FromDeploy == parseDeployResponse(execLog[1].stdout, inputs.tag).outputs
C29_FromTraffic == parseUpdateTrafficResponse(execLog[2].stdout).outputs

\* C29: after a successful run that executed both commands, the url output
\* is the URL extracted from the update-traffic response when that extraction
\* yields a URL, and otherwise the URL extracted from the deploy response: a
\* later step that yields no URL never clears or blanks a URL set by the
\* earlier step.
C29_LaterStepNeverBlanksUrl ==
  (pc = "done" /\ Len(execLog) = 2) =>
    /\ C29_Url = IF C29_FromTraffic.url /= Undefined THEN C29_FromTraffic.url
                 ELSE C29_FromDeploy.url
    /\ \A i \in 1..Len(outputs) : \A j \in (i + 1)..Len(outputs) :
         outputs[i].value /= Undefined => outputs[j].value /= Undefined

\* what the program does: the last step whose result has a url key decides,
\* whether or not the value under the key is defined
C29_LastKeyDecides ==
  (pc = "done" /\ Len(execLog) = 2) =>
    C29_Url = IF C29_FromTraffic.hasUrl THEN C29_FromTraffic.url ELSE C29_FromDeploy.url

(***************************************************************************)
(* Further properties of the parsers (specification Functions).            *)
(***************************************************************************)
\* the standard output of the call is not blank and is valid JSON
C24_ValidJson ==
  /\ ~isBlankResponse(call.stdout)
  /\ call.stdout.t /= "invalid"

\* C24: both parsers fail only on non-empty stdout that is not syntactically
\* valid JSON: for every non-empty stdout that is syntactically valid JSON
\* (object, array or scalar), parseDeployResponse and
\* parseUpdateTrafficResponse return a result and do not raise.
C24_ValidJsonNeverRaises ==
  (C17_ParserCalled /\ C24_ValidJson) => ~result.threw

\* the same, of the responses of the shape the parser is written for: a
\* resource descriptor for parseDeployResponse, a list of items for
\* parseUpdateTrafficResponse
C24_ExpectedShapeNeverRaises ==
  /\ (Called("parseDeployResponse") /\ call.stdout \in ServiceStdouts) => ~result.threw
  /\ (Called("parseUpdateTrafficResponse") /\ call.stdout \in ItemsStdouts) => ~result.threw

\* C30: parseDeployResponse never loses the default URL: for every resource
\* descriptor whose status.url is present and every requested tag, the
\* returned url is present, also when the traffic entry that matches the tag
\* carries no url of its own.
C30_DefaultUrlNeverLost ==
  (Called("parseDeployResponse") /\ call.stdout \in ServiceStdouts
     /\ call.stdout.url /= Undefined) =>
    (~result.threw /\ result.value.hasUrl /\ result.value.url /= Undefined)

\* what the program does: a matching entry decides the url, defined or not,
\* and the default is kept only when no entry matches
C30_MatchingEntryDecides ==
  (Called("parseDeployResponse") /\ call.stdout \in ServiceStdouts
     /\ call.stdout.url /= Undefined /\ ~result.threw) =>
    result.value.url =
      IF call.tag /= "" /\ findTag(call.stdout.traffic, call.tag) > 0
      THEN call.stdout.traffic[findTag(call.stdout.traffic, call.tag)].url
      ELSE call.stdout.url

====
